---- MODULE Spec2Model ----
(***************************************************************************)
(* The credential core of Okie: the signup handler of                      *)
(* Server/controllers/AuthController.js, the User model of                 *)
(* Server/models/UserModel.js (unique email index, pre-save hashing hook)  *)
(* and the session token made by createToken.                              *)
(*                                                                         *)
(* Every HTTP request is a process r \in Requests.  A signup request runs  *)
(* the handler up to each await; the steps of different requests           *)
(* interleave at the awaits (Node's event loop), and a step between two    *)
(* awaits is atomic.                                                       *)
(*                                                                         *)
(* JavaScript values are modelled as strings: Undefined is the value of a  *)
(* missing field, "" the empty string.                                     *)
(*                                                                         *)
(* Two facts of the process are fixed at its start and differ between      *)
(* runs.  JWT_KEY is process.env.JWT_KEY, which dotenv may or may not set. *)
(* hashDefined tells whether the free identifier `hash` of UserModel.js:40 *)
(* resolves: the module imports genSalt only, so within the sources the    *)
(* call throws a ReferenceError (hashDefined = FALSE) and no signup gets   *)
(* past the pre-save hook; hashDefined = TRUE is the run in which the      *)
(* identifier is bound to bcrypt's hash, the one case in which the insert, *)
(* the token and the 201 response of signup are reached at all.            *)
(*                                                                         *)
(* verifyCredentials and validate have no code in the sources (the client's*)
(* handleLogin is an empty function); they are modelled from the           *)
(* specification, sections 4.1 and 4.2, over the state the code builds.    *)
(***************************************************************************)
EXTENDS Naturals, Sequences, FiniteSets, TLC

\* ------------------------------------------------------------------ bounds
MaxReq == 2         \* number of HTTP requests in a behaviour
MaxSkew == 1        \* how far the clock moves around the ends of a window

\* --------------------------------------------------------------- constants
Undefined == "<undefined>"
Requests == 1..MaxReq
Emails == {"a@x", "b@x"}
Passwords == {"p1", "p2"}
EmailInputs == {Undefined, ""} \cup Emails
PasswordInputs == {Undefined, ""} \cup Passwords
Salts == {"s1", "s2"}
Keys == {Undefined, "k1"}

\* AuthController.js:4   const maxAge = 60 * 60 * 24 * 3
maxAge == 60 * 60 * 24 * 3

VARIABLES
    hashDefined,   \* does the identifier `hash` of UserModel.js:40 resolve
    JWT_KEY,       \* process.env.JWT_KEY
    users,         \* the documents of the User collection
    now,           \* the clock, in seconds
    nextId,        \* source of fresh ObjectIds
    pc,            \* pc[r]: where request r stands
    body,          \* body[r]: req.body of request r
    user,          \* user[r]: the document request r is creating
    salt,          \* salt[r]: the salt genSalt gave request r's hook
    res,           \* res[r]: the response of request r
    err,           \* err[r]: the error request r caught (console.log(e))
    kind,          \* kind[r]: the operation request r asks for
    presented,     \* presented[r]: the token a validate request carries
    out,           \* out[r]: what verifyCredentials or validate returned
    seen,          \* seen[r]: the documents holding request r's email when
                   \* r arrived (history, read by no action)
    at,            \* at[r]: the clock and the signing secret when request r
                   \* was answered (history, read by no action)
    route          \* route[r]: the page the client's router rendered

vars == <<hashDefined, JWT_KEY, users, now, nextId, pc, body, user, salt, res, err,
          kind, presented, out, seen, at, route>>

\* ----------------------------------------------------------------- values
\* (variant) only a missing field counts, not an empty one
FalsyMissingOnly(v) == v = Undefined

\* JavaScript's !v for the values a body field takes.
Falsy(v) == v \in {Undefined, ""}

NoBody == [email |-> Undefined, password |-> Undefined]
NoUser == [id |-> 0, email |-> Undefined, password |-> Undefined,
           firstname |-> Undefined, lastname |-> Undefined,
           image |-> Undefined, color |-> Undefined,
           profileSetup |-> Undefined]
\* A response: status 0 while nothing has been sent; send, json and cookies
\* hold what res.send, res.json and res.cookie were given.
NoRes == [status |-> 0, send |-> {}, json |-> {}, cookies |-> {}, sent |-> 0]

\* ------------------------------------------------------------ UserModel.js
\* (variant) a schema whose profileSetup defaults to false
NewUserProfileDefault(id, email, password) ==
    [id |-> id, email |-> email, password |-> password,
     firstname |-> Undefined, lastname |-> Undefined,
     image |-> Undefined, color |-> Undefined,
     profileSetup |-> "false"]

\* (variant) a create that marks the profile as set up
NewUserProfileDone(id, email, password) ==
    [id |-> id, email |-> email, password |-> password,
     firstname |-> Undefined, lastname |-> Undefined,
     image |-> Undefined, color |-> Undefined,
     profileSetup |-> "true"]

\* new User({email, password}): the schema's paths (lines 4-36); none of
\* firstname, lastname, image, color, profileSetup has a default, the
\* ObjectId is made on the client.
NewUser(id, email, password) ==
    [id |-> id, email |-> email, password |-> password,
     firstname |-> Undefined, lastname |-> Undefined,
     image |-> Undefined, color |-> Undefined,
     profileSetup |-> Undefined]

\* (variant) a hash that does not depend on the data
bcryptHashSaltOnly(data, s) == "$2b$" \o s \o "$H()"

\* bcrypt's hash(data, salt): the salt is embedded in the output, the digest
\* is a one-way function of both (kept symbolic).
bcryptHash(data, s) == "$2b$" \o s \o "$H(" \o data \o ")"

\* (variant) a hook that leaves the password as it came
PreSavePlain(doc, s) == doc

\* the pre-save hook's effect on the document: the password is replaced by
\* its hash under the hook's salt.
PreSave(doc, s) == [doc EXCEPT !.password = bcryptHash(doc.password, s)]

\* (variant) a schema without the unique index
NoUniqueIndex(coll, doc) == FALSE

\* the unique index on email: an insert of a second document with an email
\* the collection holds is refused (E11000).
DuplicateKey(coll, doc) == \E d \in coll : d.email = doc.email

\* ------------------------------------------------------- AuthController.js
\* (variant) a signature that covers the key only, not the payload
HS256KeyOnly(key, email, userId, iat, exp) == <<key>>

\* (variant) a signature that does not depend on the key
HS256NoKey(key, email, userId, iat, exp) == <<"", email, userId, iat, exp>>

\* jsonwebtoken's HS256 signature over the payload, kept symbolic.
HS256(key, email, userId, iat, exp) ==
    <<key, email, userId, iat, exp>>

\* jwt.sign(payload, secret, {expiresIn}): iat is the clock, exp = iat +
\* expiresIn (a number is a span of seconds).
jwtSign(email, userId, key, expiresIn, t) ==
    [email |-> email, userId |-> userId, iat |-> t, exp |-> t + expiresIn,
     sig |-> HS256(key, email, userId, t, t + expiresIn)]

\* (variant) expiresIn: 3, read by jsonwebtoken as three seconds
createTokenThreeSeconds(email, userId, key, t) ==
    jwtSign(email, userId, key, 3, t)

\* (variant) expiresIn given in milliseconds
createTokenMs(email, userId, key, t) ==
    jwtSign(email, userId, key, maxAge * 1000, t)

\* (variant) a token signed with another secret than process.env.JWT_KEY
createTokenOtherKey(email, userId, key, t) ==
    jwtSign(email, userId, "k0", maxAge, t)

\* createToken(email, userId), evaluated at time t under process.env.JWT_KEY
createToken(email, userId, key, t) == jwtSign(email, userId, key, maxAge, t)

\* jwt.sign throws when the secret has no value.
SignThrows(key) == key = Undefined

\* res.cookie('jwt', token, {maxAge, secure: true, sameSite: "None"}):
\* Express reads the maxAge option in milliseconds; the Set-Cookie header
\* gets Max-Age = floor(maxAge / 1000) seconds.
Cookie(token) ==
    [name |-> "jwt", value |-> token, maxAge |-> maxAge,
     MaxAge |-> maxAge \div 1000, secure |-> TRUE, sameSite |-> "None"]

\* res.status(400).send("Please enter all fields")
Res400 == [status |-> 400, send |-> {"Please enter all fields"}, json |-> {},
           cookies |-> {}, sent |-> 1]

\* res.status(500).send("Internal Server Error")
Res500 == [status |-> 500, send |-> {"Internal Server Error"}, json |-> {},
           cookies |-> {}, sent |-> 1]

\* (variant) a body made of the whole document
Res201WholeUser(u, token) ==
    [status |-> 201, send |-> {}, json |-> {u},
     cookies |-> {Cookie(token)}, sent |-> 1]

\* res.cookie(...) then res.status(201).json({user: {email, id, profileSetup}})
Res201(u, token) ==
    [status |-> 201, send |-> {},
     json |-> {[email |-> u.email, id |-> u.id,
                profileSetup |-> u.profileSetup]},
     cookies |-> {Cookie(token)}, sent |-> 1]

\* ------------------------------------------- verifyCredentials, validate
\* What verifyCredentials or validate returned: an error name, or "none"
\* with the Identity or the claim.
NoOut == [error |-> "none", identity |-> {}, claim |-> {}]
Failure(e) == [error |-> e, identity |-> {}, claim |-> {}]

\* bcrypt's compare(data, encrypted): the hash of data under the salt
\* embedded in encrypted is encrypted.
bcryptCompare(data, encrypted) ==
    \E s \in Salts : bcryptHash(data, s) = encrypted

\* verifyCredentials(email, plaintextPassword): look the Identity up by
\* email; absent or hash mismatch fail with the same AuthenticationFailure.
verifyCredentials(coll, email, password) ==
    LET found == {d \in coll : d.email = email}
    IN  IF found = {} THEN Failure("AuthenticationFailure")
        ELSE LET d == CHOOSE d \in found : TRUE
             IN  IF bcryptCompare(password, d.password)
                 THEN [error |-> "none", identity |-> {d}, claim |-> {}]
                 ELSE Failure("AuthenticationFailure")

\* validate(token) at time t under the signing secret key: no token,
\* a signature that does not verify, a token past expiresAt; else the
\* embedded claim.
validate(tokens, key, t) ==
    IF tokens = {} THEN Failure("TokenMissingError")
    ELSE LET tok == CHOOSE tok \in tokens : TRUE
         IN  IF tok.sig # HS256(key, tok.email, tok.userId, tok.iat, tok.exp)
             THEN Failure("TokenInvalidError")
             ELSE IF t > tok.exp
             THEN Failure("TokenExpiredError")
             ELSE [error |-> "none", identity |-> {},
                   claim |-> {[email |-> tok.email, subjectId |-> tok.userId]}]

\* the tokens the responses so far delivered in a cookie
IssuedTokens == {c.value : c \in UNION {res[r].cookies : r \in Requests}}

\* what an attacker makes of a token without the secret: one bit of the
\* signature flipped, or the payload rewritten under the old signature
\* (another subject, a later expiry).
Tampered(tok) ==
    {[tok EXCEPT !.sig = <<"~">> \o tok.sig],
     [tok EXCEPT !.email = CHOOSE e \in Emails : e # tok.email],
     [tok EXCEPT !.exp = tok.exp + maxAge]}

\* the tokens a request may carry in its cookie: none, an issued one, or a
\* tampered one
Presentable ==
    {{}} \cup {{tok} : tok \in IssuedTokens}
         \cup {{f} : f \in UNION {Tampered(tok) : tok \in IssuedTokens}}

\* ------------------------------------------------------- client, App.jsx
Paths == {"/auth", "/profile", "/chat", "/settings"}

\* <Routes> of App: /auth, /profile and /chat render their page, every other
\* path matches "*" and is redirected to /auth.  No route asks for a token.
RouteOf(path) ==
    CASE path = "/auth" -> "Auth"
      [] path = "/profile" -> "Profile"
      [] path = "/chat" -> "Chat"
      [] OTHER -> "Auth"

\* the secrets a rotation installs
NewKeys == {"k2"}

\* ------------------------------------------------------------------- Init
Init ==
    /\ hashDefined \in BOOLEAN
    /\ JWT_KEY \in Keys
    /\ users = {}
    /\ now = 0
    /\ nextId = 1
    /\ pc = [r \in Requests |-> "idle"]
    /\ body = [r \in Requests |-> NoBody]
    /\ user = [r \in Requests |-> NoUser]
    /\ salt = [r \in Requests |-> Undefined]
    /\ res = [r \in Requests |-> NoRes]
    /\ err = [r \in Requests |-> "none"]
    /\ kind = [r \in Requests |-> "none"]
    /\ presented = [r \in Requests |-> {}]
    /\ out = [r \in Requests |-> NoOut]
    /\ seen = [r \in Requests |-> {}]
    /\ at = [r \in Requests |-> [t |-> 0, key |-> Undefined]]
    /\ route = [r \in Requests |-> "none"]

\* ---------------------------------------------------------------- actions
\* Requests are numbered in the order they arrive.
Arrives(r) == pc[r] = "idle" /\ \A q \in Requests : q < r => pc[q] # "idle"

\* (variant) a handler that builds the document before it checks the fields
SignupBeginCreateFirst(r, email, password) ==
    /\ Arrives(r)
    /\ kind' = [kind EXCEPT ![r] = "signup"]
    /\ seen' = [seen EXCEPT ![r] = {d \in users : d.email = email}]
    /\ body' = [body EXCEPT ![r] = [email |-> email, password |-> password]]
    /\ user' = [user EXCEPT ![r] = NewUser(nextId, email, password)]
    /\ nextId' = nextId + 1
    /\ IF Falsy(email) \/ Falsy(password)
       THEN /\ res' = [res EXCEPT ![r] = Res400]
            /\ pc' = [pc EXCEPT ![r] = "done"]
       ELSE /\ pc' = [pc EXCEPT ![r] = "genSalt"]
            /\ UNCHANGED res
    /\ UNCHANGED <<hashDefined, JWT_KEY, users, now, salt, err, presented, out,
                   at, route>>

\* signup, lines 10-18: read the body; a falsy field is answered 400; else
\* User.create builds the document and starts save(), whose first await is
\* in the pre-save hook.
SignupBegin(r, email, password) ==
    /\ Arrives(r)
    /\ kind' = [kind EXCEPT ![r] = "signup"]
    /\ seen' = [seen EXCEPT ![r] = {d \in users : d.email = email}]
    /\ body' = [body EXCEPT ![r] = [email |-> email, password |-> password]]
    /\ IF Falsy(email) \/ Falsy(password)
       THEN /\ res' = [res EXCEPT ![r] = Res400]
            /\ pc' = [pc EXCEPT ![r] = "done"]
            /\ UNCHANGED <<user, nextId>>
       ELSE /\ user' = [user EXCEPT ![r] = NewUser(nextId, email, password)]
            /\ nextId' = nextId + 1
            /\ pc' = [pc EXCEPT ![r] = "genSalt"]
            /\ UNCHANGED res
    /\ UNCHANGED <<hashDefined, JWT_KEY, users, now, salt, err, presented, out,
                   at, route>>

\* (variant) a hook that swallows the failure of hash and calls next()
PreSaveGenSaltSwallow(r, s) ==
    /\ pc[r] = "genSalt"
    /\ IF hashDefined
       THEN /\ salt' = [salt EXCEPT ![r] = s]
            /\ pc' = [pc EXCEPT ![r] = "hash"]
       ELSE /\ pc' = [pc EXCEPT ![r] = "insert"]
            /\ UNCHANGED salt
    /\ UNCHANGED <<hashDefined, JWT_KEY, users, now, nextId, body, user, res, err,
                   kind, presented, out, seen, at, route>>

\* pre('save'), line 39: const salt = await genSalt().  Line 40 then
\* evaluates hash(this.password, salt): the identifier hash is not imported
\* (line 1 imports genSalt only), so the call throws a ReferenceError unless
\* the global environment defines it; the hook's promise rejects, save()
\* rejects and signup's catch (lines 35-39) answers 500.
PreSaveGenSalt(r, s) ==
    /\ pc[r] = "genSalt"
    /\ IF hashDefined
       THEN /\ salt' = [salt EXCEPT ![r] = s]
            /\ pc' = [pc EXCEPT ![r] = "hash"]
            /\ UNCHANGED <<res, err>>
       ELSE /\ err' = [err EXCEPT ![r] = "ReferenceError"]
            /\ res' = [res EXCEPT ![r] = Res500]
            /\ pc' = [pc EXCEPT ![r] = "done"]
            /\ UNCHANGED salt
    /\ UNCHANGED <<hashDefined, JWT_KEY, users, now, nextId, body, user,
                   kind, presented, out, seen, at, route>>

\* pre('save'), lines 40-41: this.password = await hash(this.password, salt);
\* next(): the document goes to the collection with the hash as password.
PreSaveHash(r) ==
    /\ pc[r] = "hash"
    /\ user' = [user EXCEPT ![r] = PreSave(user[r], salt[r])]
    /\ pc' = [pc EXCEPT ![r] = "insert"]
    /\ UNCHANGED <<hashDefined, JWT_KEY, users, now, nextId, body, salt, res, err,
                   kind, presented, out, seen, at, route>>

\* (variant) a save that replaces the document holding the email
InsertUpsert(r) ==
    /\ pc[r] = "insert"
    /\ users' = {d \in users : d.email # user[r].email} \cup {user[r]}
    /\ pc' = [pc EXCEPT ![r] = "created"]
    /\ UNCHANGED <<hashDefined, JWT_KEY, now, nextId, body, user, salt, res, err,
                   kind, presented, out, seen, at, route>>

\* (variant) a handler that sets the cookie before User.create: the answer to
\* a refused insert carries a token
InsertCookieBeforeCreate(r) ==
    /\ pc[r] = "insert"
    /\ IF DuplicateKey(users, user[r])
       THEN /\ err' = [err EXCEPT ![r] = "E11000"]
            /\ res' = [res EXCEPT ![r] =
                  [Res500 EXCEPT !.cookies =
                      {Cookie(createToken(user[r].email, user[r].id,
                                          JWT_KEY, now))}]]
            /\ pc' = [pc EXCEPT ![r] = "done"]
            /\ UNCHANGED users
       ELSE /\ users' = users \cup {user[r]}
            /\ pc' = [pc EXCEPT ![r] = "created"]
            /\ UNCHANGED <<res, err>>
    /\ UNCHANGED <<hashDefined, JWT_KEY, now, nextId, body, user, salt,
                   kind, presented, out, seen, at, route>>

\* the insert of save(), line 18: atomic at the collection; the unique index
\* on email refuses a duplicate (E11000): User.create rejects and signup's
\* catch answers 500.
Insert(r) ==
    /\ pc[r] = "insert"
    /\ IF DuplicateKey(users, user[r])
       THEN /\ err' = [err EXCEPT ![r] = "E11000"]
            /\ res' = [res EXCEPT ![r] = Res500]
            /\ pc' = [pc EXCEPT ![r] = "done"]
            /\ UNCHANGED users
       ELSE /\ users' = users \cup {user[r]}
            /\ pc' = [pc EXCEPT ![r] = "created"]
            /\ UNCHANGED <<res, err>>
    /\ UNCHANGED <<hashDefined, JWT_KEY, now, nextId, body, user, salt,
                   kind, presented, out, seen, at, route>>

\* (variant) a handler without the catch: a throw of jwt.sign rejects the
\* handler's promise and the request is never answered
RespondNoCatch(r) ==
    /\ pc[r] = "created"
    /\ IF SignThrows(JWT_KEY)
       THEN /\ err' = [err EXCEPT ![r] = "secretOrPrivateKey"]
            /\ pc' = [pc EXCEPT ![r] = "hung"]
            /\ UNCHANGED res
       ELSE /\ res' = [res EXCEPT ![r] =
                  Res201(user[r],
                         createToken(user[r].email, user[r].id, JWT_KEY, now))]
            /\ pc' = [pc EXCEPT ![r] = "done"]
            /\ UNCHANGED err
    /\ at' = [at EXCEPT ![r] = [t |-> now, key |-> JWT_KEY]]
    /\ UNCHANGED <<hashDefined, JWT_KEY, users, now, nextId, body, user, salt,
                   kind, presented, out, seen, route>>

\* (variant) a handler that keeps the created user in a variable of the
\* module, shared by the requests: the answer is made from the newest document
RespondLastCreated(r) ==
    /\ pc[r] = "created"
    /\ pc' = [pc EXCEPT ![r] = "done"]
    /\ IF SignThrows(JWT_KEY)
       THEN /\ err' = [err EXCEPT ![r] = "secretOrPrivateKey"]
            /\ res' = [res EXCEPT ![r] = Res500]
       ELSE /\ LET u == CHOOSE d \in users : \A e \in users : e.id <= d.id
               IN  res' = [res EXCEPT ![r] =
                      Res201(u, createToken(u.email, u.id, JWT_KEY, now))]
            /\ UNCHANGED err
    /\ at' = [at EXCEPT ![r] = [t |-> now, key |-> JWT_KEY]]
    /\ UNCHANGED <<hashDefined, JWT_KEY, users, now, nextId, body, user, salt,
                   kind, presented, out, seen, route>>

\* signup, lines 20-34, after await User.create: createToken, res.cookie,
\* res.status(201).json; a throw of jwt.sign is caught and answered 500.
Respond(r) ==
    /\ pc[r] = "created"
    /\ pc' = [pc EXCEPT ![r] = "done"]
    /\ IF SignThrows(JWT_KEY)
       THEN /\ err' = [err EXCEPT ![r] = "secretOrPrivateKey"]
            /\ res' = [res EXCEPT ![r] = Res500]
       ELSE /\ res' = [res EXCEPT ![r] =
                  Res201(user[r],
                         createToken(user[r].email, user[r].id, JWT_KEY, now))]
            /\ UNCHANGED err
    /\ at' = [at EXCEPT ![r] = [t |-> now, key |-> JWT_KEY]]
    /\ UNCHANGED <<hashDefined, JWT_KEY, users, now, nextId, body, user, salt,
                   kind, presented, out, seen, route>>

\* a login request: verifyCredentials over the collection as it stands.
Login(r, email, password) ==
    /\ Arrives(r)
    /\ kind' = [kind EXCEPT ![r] = "login"]
    /\ body' = [body EXCEPT ![r] = [email |-> email, password |-> password]]
    /\ out' = [out EXCEPT ![r] = verifyCredentials(users, email, password)]
    /\ pc' = [pc EXCEPT ![r] = "done"]
    /\ UNCHANGED <<hashDefined, JWT_KEY, users, now, nextId, user, salt, res, err,
                   presented, seen, at, route>>

\* a request to a protected collaborator: validate on the token of its
\* cookie.
Validate(r, tokens) ==
    /\ Arrives(r)
    /\ kind' = [kind EXCEPT ![r] = "validate"]
    /\ presented' = [presented EXCEPT ![r] = tokens]
    /\ out' = [out EXCEPT ![r] = validate(tokens, JWT_KEY, now)]
    /\ at' = [at EXCEPT ![r] = [t |-> now, key |-> JWT_KEY]]
    /\ pc' = [pc EXCEPT ![r] = "done"]
    /\ UNCHANGED <<hashDefined, JWT_KEY, users, now, nextId, body, user, salt, res,
                   err, seen, route>>

\* the client opens a path: App's router renders the page of the route,
\* whatever cookie the browser holds.
Navigate(r, path, tokens) ==
    /\ Arrives(r)
    /\ kind' = [kind EXCEPT ![r] = "navigate"]
    /\ presented' = [presented EXCEPT ![r] = tokens]
    /\ route' = [route EXCEPT ![r] = RouteOf(path)]
    /\ at' = [at EXCEPT ![r] = [t |-> now, key |-> JWT_KEY]]
    /\ pc' = [pc EXCEPT ![r] = "done"]
    /\ UNCHANGED <<hashDefined, JWT_KEY, users, now, nextId, body, user, salt, res,
                   err, out, seen>>

\* the signing secret is rotated: process.env.JWT_KEY, read at every call of
\* createToken, gets another value.
Rotate(k) ==
    /\ JWT_KEY # k
    /\ JWT_KEY' = k
    /\ UNCHANGED <<hashDefined, users, now, nextId, pc, body, user, salt, res, err,
                   kind, presented, out, seen, at, route>>

\* a collaborator loads a stored document and calls save() on it without
\* setting its password (a profile update): pre('save'), lines 38-42, runs on
\* every save and has no test of isModified('password'), so it hashes
\* this.password, the stored hash, again and the update writes the result.
Resave(r, d, s) ==
    /\ Arrives(r)
    /\ d \in users
    /\ kind' = [kind EXCEPT ![r] = "save"]
    /\ seen' = [seen EXCEPT ![r] = {d}]
    /\ pc' = [pc EXCEPT ![r] = "done"]
    /\ IF hashDefined
       THEN /\ users' = (users \ {d}) \cup {PreSave(d, s)}
            /\ UNCHANGED err
       ELSE /\ err' = [err EXCEPT ![r] = "ReferenceError"]
            /\ UNCHANGED users
    /\ UNCHANGED <<hashDefined, JWT_KEY, now, nextId, body, user, salt, res,
                   presented, out, at, route>>

\* the clock: a second passes, or the whole of a token's window.
Tick(d) ==
    /\ IF d = 1 THEN now % maxAge < MaxSkew ELSE now <= MaxSkew
    /\ now' = now + d
    /\ UNCHANGED <<hashDefined, JWT_KEY, users, nextId, pc, body, user, salt, res, err,
                   kind, presented, out, seen, at, route>>

\* The credential store: signups with every input, and logins.
Next ==
    \/ \E r \in Requests, e \in EmailInputs, p \in PasswordInputs :
          SignupBegin(r, e, p)
    \/ \E r \in Requests, s \in Salts : PreSaveGenSalt(r, s)
    \/ \E r \in Requests : PreSaveHash(r)
    \/ \E r \in Requests : Insert(r)
    \/ \E r \in Requests : Respond(r)
    \/ \E r \in Requests, e \in Emails, p \in Passwords : Login(r, e, p)

Spec == Init /\ [][Next]_vars

\* The credential store with its scheduling: genSalt, hash and the insert
\* return or fail, and a continuation that is ready is run by the event loop,
\* so no step of a signup that has begun is put off for ever.
NextSignup ==
    \/ \E r \in Requests, e \in {Undefined} \cup Emails, p \in {"", "p1"} :
          SignupBegin(r, e, p)
    \/ \E r \in Requests : PreSaveGenSalt(r, "s1")
    \/ \E r \in Requests : PreSaveHash(r)
    \/ \E r \in Requests : Insert(r)
    \/ \E r \in Requests : Respond(r)

SpecFair ==
    /\ Init /\ [][NextSignup]_vars
    /\ \A r \in Requests :
          /\ WF_vars(PreSaveGenSalt(r, "s1"))
          /\ WF_vars(PreSaveHash(r))
          /\ WF_vars(Insert(r))
          /\ WF_vars(Respond(r))

\* The session tokens: signups that pass the field check, requests that
\* carry a token, the client's navigation, the clock and a rotation of the
\* secret.
NextSession ==
    \/ \E r \in Requests, e \in Emails : SignupBegin(r, e, "p1")
    \/ \E r \in Requests : PreSaveGenSalt(r, "s1")
    \/ \E r \in Requests : PreSaveHash(r)
    \/ \E r \in Requests : Insert(r)
    \/ \E r \in Requests : Respond(r)
    \/ \E r \in Requests, t \in Presentable : Validate(r, t)
    \/ \E r \in Requests, p \in Paths :
          \E t \in {{}} \cup {{tok} : tok \in IssuedTokens} : Navigate(r, p, t)
    \/ \E d \in {1, maxAge} : Tick(d)
    \/ \E k \in NewKeys : Rotate(k)

SpecSession == Init /\ [][NextSession]_vars

\* The profile collaborator: signups that pass the field check, and saves of
\* stored documents.
NextProfile ==
    \/ \E r \in Requests, e \in Emails, p \in Passwords : SignupBegin(r, e, p)
    \/ \E r \in Requests, s \in Salts : PreSaveGenSalt(r, s)
    \/ \E r \in Requests : PreSaveHash(r)
    \/ \E r \in Requests : Insert(r)
    \/ \E r \in Requests : Respond(r)
    \/ \E r \in Requests, s \in Salts : \E d \in users : Resave(r, d, s)

SpecProfile == Init /\ [][NextProfile]_vars

\* ------------------------------------------------------------- properties
Done(r) == pc[r] = "done"
Signup(r) == kind[r] = "signup"
\* a signup whose two fields are non-empty
ValidSignup(r) ==
    Signup(r) /\ body[r].email \in Emails /\ body[r].password \in Passwords
\* the plaintext passwords submitted by the requests that built document d
PlaintextOf(d) == {body[q].password : q \in {q \in Requests : user[q].id = d.id}}
Success(d) == [error |-> "none", identity |-> {d}, claim |-> {}]

\* C1: in every reachable state the collection holds at most one Identity
\* per email, whatever the signups and their interleaving.
C1_OneIdentityPerEmail ==
    \A d1, d2 \in users : d1.email = d2.email => d1 = d2

\* two signups with the same email have finished, one of them stored
C1_Witness ==
    \E r1, r2 \in Requests :
        /\ r1 # r2 /\ ValidSignup(r1) /\ ValidSignup(r2)
        /\ Done(r1) /\ Done(r2)
        /\ body[r1].email = body[r2].email
        /\ \E d \in users : d.email = body[r1].email

\* C2: when two or more signups with the same email and non-empty passwords
\* have all finished (the signing secret being configured), exactly one of
\* them succeeded and every other one met the duplicate-key error.
C2_ExactlyOneSucceeds ==
    \A e \in Emails :
        LET G == {r \in Requests : ValidSignup(r) /\ body[r].email = e}
        IN  (JWT_KEY # Undefined /\ Cardinality(G) >= 2 /\ \A r \in G : Done(r))
            => /\ Cardinality({r \in G : res[r].status = 201}) = 1
               /\ \A r \in G : res[r].status # 201 => err[r] = "E11000"

\* C3: every stored Identity has a password field that is non-empty and is
\* no plaintext: not the password submitted at its registration, nor any
\* other submitted value.
C3_HashStoredNotPlaintext ==
    \A d \in users :
        /\ d.password \notin {Undefined, ""}
        /\ d.password \notin PlaintextOf(d)
        /\ d.password \notin PasswordInputs

\* an Identity has been stored
C3_Witness ==
    \E d \in users : PlaintextOf(d) # {} /\ \E r \in Requests : Done(r) /\ user[r] = d

\* C4: a finished signup with non-empty email and password, the only signup
\* for its email (the signing secret being configured), was answered 201,
\* and verifyCredentials with the same pair returns the Identity of that
\* email.
C4_RegisterThenVerify ==
    \A r \in Requests :
        ( /\ ValidSignup(r) /\ Done(r) /\ JWT_KEY # Undefined
          /\ \A q \in Requests :
                (Signup(q) /\ body[q].email = body[r].email) => q = r )
        => /\ res[r].status = 201
           /\ LET v == verifyCredentials(users, body[r].email, body[r].password)
              IN  /\ v.error = "none"
                  /\ \E d \in v.identity : d.email = body[r].email

\* C5: a signup answered 201 returns the created Identity (its email and id,
\* profileSetup unset) and one cookie whose token is signed for that
\* Identity's email and id.
C5_CreatedIdentityAndToken ==
    \A r \in Requests :
        res[r].status = 201 =>
            \E d \in users :
                /\ d = user[r] /\ d.email = body[r].email
                /\ d.profileSetup = Undefined
                /\ res[r].json = {[email |-> d.email, id |-> d.id,
                                   profileSetup |-> Undefined]}
                /\ \E c \in res[r].cookies :
                      /\ res[r].cookies = {c}
                      /\ c.value.email = d.email
                      /\ c.value.userId = d.id
                      /\ c.value.sig = HS256(JWT_KEY, d.email, d.id,
                                             c.value.iat, c.value.exp)

\* a signup has been answered 201
C5_Witness == \E r \in Requests : Signup(r) /\ Done(r) /\ res[r].status = 201

\* C6: a signup with a missing or empty email, or a missing or empty
\* password, is answered 400, whatever the other field is.
C6_MissingFieldIs400 ==
    \A r \in Requests :
        (Signup(r) /\ (body[r].email \in {Undefined, ""}
                        \/ body[r].password \in {Undefined, ""}))
        => /\ Done(r) /\ res[r].status = 400
           /\ res[r].send = {"Please enter all fields"}
           /\ res[r].cookies = {}

\* each of the four ways a field is missing or empty beside a present one
C6_Witness ==
    \E r1, r2 \in Requests :
        /\ Signup(r1) /\ body[r1].email = "" /\ body[r1].password \in Passwords
        /\ Signup(r2) /\ body[r2].email \in Emails
        /\ body[r2].password = Undefined
        /\ res[r1].status = 400 /\ res[r2].status = 400

\* C7: a signup (with both fields non-empty) for an email that had an
\* Identity when it arrived ends with the duplicate-key error, gets no
\* token, and leaves that Identity as it was: the password it was registered
\* with verifies, and the second password, when different, does not.
C7_DuplicateRefused ==
    \A r \in Requests :
        (ValidSignup(r) /\ Done(r) /\ seen[r] # {}) =>
            /\ err[r] = "E11000"
            /\ res[r].status # 201 /\ res[r].cookies = {}
            /\ seen[r] \subseteq users
            /\ user[r] \notin users
            /\ \A d \in seen[r] :
                  /\ \A p \in PlaintextOf(d) :
                        verifyCredentials(users, d.email, p) = Success(d)
                  /\ body[r].password \notin PlaintextOf(d) =>
                        verifyCredentials(users, d.email, body[r].password)
                            = Failure("AuthenticationFailure")

\* a second signup with another password for a registered email has finished
C7_Witness ==
    \E r \in Requests :
        /\ ValidSignup(r) /\ Done(r)
        /\ \E d \in seen[r] : body[r].password \notin PlaintextOf(d)

C10_IssueValidateRoundTrip ==
    /\ JWT_KEY # Undefined =>
          \A e \in Emails, i \in Requests :
              validate({createToken(e, i, JWT_KEY, now)}, JWT_KEY, now)
                  = [error |-> "none", identity |-> {},
                     claim |-> {[email |-> e, subjectId |-> i]}]
    /\ \A r \in Requests : \A c \in res[r].cookies :
          validate({c.value}, at[r].key, c.value.iat)
              = [error |-> "none", identity |-> {},
                 claim |-> {[email |-> user[r].email, subjectId |-> user[r].id]}]
    /\ \A r, q \in Requests : \A c \in res[r].cookies :
          ( /\ kind[q] = "validate" /\ Done(q) /\ presented[q] = {c.value}
            /\ at[q].t = c.value.iat /\ at[q].key = at[r].key )
          => out[q] = [error |-> "none", identity |-> {},
                       claim |-> {[email |-> user[r].email,
                                   subjectId |-> user[r].id]}]

\* a request has validated a token in the second it was issued, under the
\* secret that signed it
C10_Witness ==
    \E r, q \in Requests : \E c \in res[r].cookies :
        /\ kind[q] = "validate" /\ Done(q) /\ presented[q] = {c.value}
        /\ at[q].t = c.value.iat /\ at[q].key = at[r].key
        /\ out[q].error = "none"

\* --------------------------------------------------- properties, sessions
\* the cookie tokens of request r's response
TokensOf(r) == {c.value : c \in res[r].cookies}
\* the requests that asked for validate and were answered
Validated == {q \in Requests : kind[q] = "validate" /\ Done(q)}
Claim(tok) == [error |-> "none", identity |-> {},
               claim |-> {[email |-> tok.email, subjectId |-> tok.userId]}]

\* C11: every issued token has expiresAt = issuedAt + 3 days (259200 s),
\* issuedAt being the time of issue, and validates under the secret it was
\* signed with at every time up to expiresAt.
C11_ThreeDayWindow ==
    \A r \in Requests : \A tok \in TokensOf(r) :
        /\ tok.iat = at[r].t
        /\ tok.exp = tok.iat + 3 * 24 * 60 * 60
        /\ tok.exp = tok.iat + 259200
        /\ now <= tok.exp => validate({tok}, at[r].key, now) = Claim(tok)
        /\ \A q \in Validated :
              (presented[q] = {tok} /\ at[q].key = at[r].key
               /\ at[q].t <= tok.exp) => out[q] = Claim(tok)

\* a token was validated at the very second of its expiresAt
C11_Witness ==
    \E r \in Requests, q \in Validated : \E tok \in TokensOf(r) :
        /\ presented[q] = {tok} /\ at[q].t = tok.exp /\ at[q].key = at[r].key
        /\ out[q].error = "none"

\* C12: once the clock has passed a token's expiresAt (the end of its three
\* days), validate of it under its secret fails with TokenExpiredError, and
\* it never validates again in any later state.
C12_ExpiredIsTerminal ==
    /\ [](\A r \in Requests : \A tok \in TokensOf(r) :
            /\ (now > tok.exp \/ now > tok.iat + 259200) =>
                  validate({tok}, at[r].key, now) = Failure("TokenExpiredError")
            /\ \A q \in Validated :
                  (presented[q] = {tok} /\ at[q].key = at[r].key
                   /\ (at[q].t > tok.exp \/ at[q].t > tok.iat + 259200))
                  => out[q] = Failure("TokenExpiredError"))
    /\ [][\A tok \in IssuedTokens :
            validate({tok}, JWT_KEY, now).error # "none" =>
                validate({tok}, JWT_KEY', now').error # "none"]_vars

\* a token was presented after its expiresAt and refused as expired
C12_Witness ==
    \E r \in Requests, q \in Validated : \E tok \in TokensOf(r) :
        /\ presented[q] = {tok} /\ at[q].t > tok.exp
        /\ out[q] = Failure("TokenExpiredError")

\* C13: a token that differs from an issued one in its signature or in its
\* payload never validates: validate fails with TokenInvalidError at every
\* time, before and after the original's expiry, under every secret in use.
C13_TamperedNeverValidates ==
    /\ \A tok \in IssuedTokens : \A f \in Tampered(tok) :
          validate({f}, JWT_KEY, now) = Failure("TokenInvalidError")
    /\ \A q \in Validated : \A tok \in IssuedTokens :
          presented[q] \subseteq Tampered(tok) /\ presented[q] # {} =>
              out[q] = Failure("TokenInvalidError")

\* a tampered copy of an issued token was presented after the original's
\* expiry and refused as invalid, not as expired
C13_Witness ==
    \E q \in Validated : \E tok \in IssuedTokens :
        /\ presented[q] # {} /\ presented[q] \subseteq Tampered(tok)
        /\ at[q].t > tok.exp
        /\ out[q] = Failure("TokenInvalidError")

\* C14: validate without a token fails with TokenMissingError; it returns a
\* claim only for an issued token, untampered, within its window and under
\* the secret that signed it, and then the whole claim; every other outcome
\* is one of the three token errors, with no claim.
C14_ClaimOrTokenError ==
    \A q \in Validated :
        /\ out[q].error \in {"none", "TokenMissingError", "TokenExpiredError",
                             "TokenInvalidError"}
        /\ presented[q] = {} <=> out[q].error = "TokenMissingError"
        /\ out[q].error # "none" => out[q].claim = {} /\ out[q].identity = {}
        /\ out[q].error = "none" =>
              \E r \in Requests : \E tok \in TokensOf(r) :
                  /\ presented[q] = {tok}
                  /\ at[q].t <= tok.exp
                  /\ at[q].key = at[r].key
                  /\ out[q].claim = {[email |-> user[r].email,
                                      subjectId |-> user[r].id]}

\* validate has been called without a token while an issued token was
\* still in its window, and failed with TokenMissingError
C14_Witness ==
    \E q \in Validated : \E tok \in IssuedTokens :
        /\ presented[q] = {}
        /\ at[q].t <= tok.exp
        /\ out[q] = Failure("TokenMissingError")

\* C15: the client renders a protected page (profile, chat) only for a
\* request whose cookie token validates; otherwise the page is not entered.
C15_ProtectedOnlyAfterValidate ==
    \A r \in Requests :
        route[r] \in {"Profile", "Chat"} =>
            validate(presented[r], at[r].key, at[r].t).error = "none"

\* C16: validate leaves the collection as it is, and an issued token
\* validates, with its claim, at every time up to the end of its three days
\* while the secret is the one that signed it, whatever was registered,
\* issued or validated since.
C16_StatelessUntilExpiry ==
    /\ [](\A r \in Requests : \A tok \in TokensOf(r) :
            (now <= tok.iat + 259200 /\ JWT_KEY = at[r].key) =>
                validate({tok}, JWT_KEY, now) = Claim(tok))
    /\ [][\A q \in Requests :
            (kind[q] # "validate" /\ kind'[q] = "validate") =>
                /\ users' = users
                /\ \A tok \in IssuedTokens :
                      validate({tok}, JWT_KEY', now')
                          = validate({tok}, JWT_KEY, now)]_vars

\* a token issued at time 0 validated later, after other work of the server
C16_Witness ==
    \E r \in Requests, q \in Validated : \E tok \in TokensOf(r) :
        /\ presented[q] = {tok} /\ tok.iat = 0 /\ at[q].t > 0
        /\ out[q] = Claim(tok)

C19_HashFailurePropagates ==
    /\ \A r \in Requests :
          (~hashDefined /\ ValidSignup(r) /\ Done(r)) =>
              /\ res[r].status = 500 /\ res[r].cookies = {}
              /\ res[r].json = {}
              /\ \A d \in users : d.id # user[r].id
    /\ \A r \in Requests :
          (~hashDefined /\ ValidSignup(r)) => user[r] \notin users
    /\ \A d \in users : d.password \notin PasswordInputs

\* a signup whose hashing failed has been answered
C19_Witness ==
    \E r \in Requests :
        ~hashDefined /\ ValidSignup(r) /\ Done(r) /\ err[r] = "ReferenceError"

\* C20: once the signing secret differs from the one a token was issued
\* under, validate of that token fails (TokenInvalidError); and in every step
\* that leaves the secret unchanged, a token issued in the step validates
\* under that secret and a validate of the step is decided under it.
C20_RotationInvalidates ==
    /\ [](\A r \in Requests : \A tok \in TokensOf(r) :
            /\ at[r].key # JWT_KEY =>
                  validate({tok}, JWT_KEY, now) = Failure("TokenInvalidError")
            /\ \A q \in Validated :
                  (presented[q] = {tok} /\ at[q].key # at[r].key) =>
                      out[q] = Failure("TokenInvalidError"))
    /\ [][JWT_KEY' = JWT_KEY =>
            \A r \in Requests :
                /\ \A tok \in TokensOf(r)' \ TokensOf(r) :
                      validate({tok}, JWT_KEY, tok.iat) = Claim(tok)
                /\ (kind[r] # "validate" /\ kind'[r] = "validate") =>
                      out'[r] = validate(presented'[r], JWT_KEY, now)]_vars

\* a token issued under the first secret was presented after the rotation
\* and refused
C20_Witness ==
    \E r \in Requests, q \in Validated : \E tok \in TokensOf(r) :
        /\ presented[q] = {tok} /\ at[r].key = "k1" /\ at[q].key = "k2"
        /\ JWT_KEY = "k2"
        /\ out[q] = Failure("TokenInvalidError")

\* ------------------------------------------------ properties, the store
\* C21: the collection only grows: every step keeps the stored Identities as
\* they are (none deleted, no email changed); a new Identity appears only in
\* the insert of a signup whose User.create resolves, with the email that
\* signup submitted.
C21_StoreOnlyGrows ==
    /\ [][/\ users \subseteq users'
          /\ \A d \in users : \E d2 \in users' :
                d2.id = d.id /\ d2.email = d.email
          /\ \A d \in users' \ users : \E r \in Requests :
                /\ Signup(r) /\ pc[r] = "insert" /\ pc'[r] = "created"
                /\ d = user[r] /\ d.email = body[r].email]_vars
    /\ [](\A d \in users : \E r \in Requests :
            /\ Signup(r) /\ user[r] = d /\ pc[r] \in {"created", "done"}
            /\ err[r] \notin {"ReferenceError", "E11000"})

\* two Identities have been stored, one after the other
C21_Witness ==
    \E d1, d2 \in users : d1.email # d2.email /\ d1.id < d2.id

\* C22: no step of signup or of verifyCredentials sets profileSetup or a
\* display attribute (firstname, lastname, image, color): every stored
\* Identity, every Identity a signup returns and every Identity a login
\* returns has them unset; a login leaves the collection as it is.
C22_ProfileUntouched ==
    /\ [](/\ \A d \in users :
                /\ d.profileSetup = Undefined
                /\ d.firstname = Undefined /\ d.lastname = Undefined
                /\ d.image = Undefined /\ d.color = Undefined
          /\ \A r \in Requests :
                /\ \A j \in res[r].json : j.profileSetup = Undefined
                /\ \A d \in out[r].identity : d.profileSetup = Undefined)
    /\ [][\A r \in Requests :
            (kind[r] # "login" /\ kind'[r] = "login") => users' = users]_vars

\* a login has returned a registered Identity
C22_Witness ==
    \E r \in Requests : \E d \in users :
        kind[r] = "login" /\ Done(r) /\ out[r].identity = {d}

\* C23: under every interleaving of the signups, a 201 response carries, in
\* its body and in its token, the email its own request submitted and the id
\* of its own Identity, never the email or id of another request's Identity;
\* and a step of one request leaves every other request's state as it is.
C23_RequestsIndependent ==
    /\ [](\A r \in Requests : res[r].status = 201 =>
            /\ \A j \in res[r].json :
                  /\ j.email = body[r].email /\ j.id = user[r].id
                  /\ \A q \in Requests \ {r} :
                        (Signup(q) /\ body[q].email # body[r].email) =>
                            j.email # body[q].email /\ j.id # user[q].id
            /\ \A tok \in TokensOf(r) :
                  /\ tok.email = body[r].email /\ tok.userId = user[r].id
                  /\ \A q \in Requests \ {r} :
                        (Signup(q) /\ body[q].email # body[r].email) =>
                            tok.email # body[q].email
                            /\ tok.userId # user[q].id
            /\ \E d \in users : d.id = user[r].id /\ d.email = body[r].email)
    /\ [][\E r \in Requests : \A q \in Requests \ {r} :
            /\ pc'[q] = pc[q] /\ body'[q] = body[q] /\ user'[q] = user[q]
            /\ salt'[q] = salt[q] /\ res'[q] = res[q] /\ err'[q] = err[q]]_vars

\* the later of two signups for different emails has been answered 201 while
\* the earlier one, its Identity stored, still waits for its answer
C23_Witness ==
    \E r1, r2 \in Requests :
        /\ r1 < r2 /\ body[r1].email # body[r2].email
        /\ pc[r1] = "created" /\ user[r1] \in users
        /\ res[r2].status = 201 /\ user[r2] \in users

C26_TokenAfterCreateBefore201 ==
    /\ [](\A r \in Requests :
            /\ res[r].cookies # {} =>
                  /\ res[r].status = 201
                  /\ \E d \in users : d = user[r]
                  /\ \A c \in res[r].cookies :
                        c.value.email = user[r].email
                        /\ c.value.userId = user[r].id
            /\ res[r].status \in {400, 500} => res[r].cookies = {}
            /\ pc[r] \in {"idle", "genSalt", "hash", "insert", "created"} =>
                  res[r].cookies = {} /\ res[r].sent = 0)
    /\ [][\A r \in Requests :
            (res[r].cookies = {} /\ res'[r].cookies # {}) =>
                /\ pc[r] = "created" /\ user[r] \in users
                /\ res[r].sent = 0 /\ res'[r].status = 201]_vars

\* one signup was answered 201 with its cookie, another, refused by the
\* unique index, 500 without one
C26_Witness ==
    \E r1, r2 \in Requests :
        /\ res[r1].status = 201 /\ res[r1].cookies # {}
        /\ res[r2].status = 500 /\ err[r2] = "E11000" /\ res[r2].cookies = {}

\* C27: a signup with a missing or empty email or password is answered in
\* the step it arrives in, before User.create: no document is built for it,
\* no id is taken, no salt is made and nothing is hashed, the collection is
\* left as it is, and its response has no cookie.
C27_MissingFieldBeforeStore ==
    /\ [](\A r \in Requests :
            (Signup(r) /\ (body[r].email \in {Undefined, ""}
                            \/ body[r].password \in {Undefined, ""})) =>
                /\ user[r] = NoUser /\ salt[r] = Undefined
                /\ err[r] = "none" /\ res[r].cookies = {}
                /\ pc[r] = "done" /\ res[r].status = 400
                /\ \A d \in users : d.id # user[r].id /\ d.email # "")
    /\ [][\A r \in Requests :
            (res[r].status = 0 /\ res'[r].status = 400) =>
                /\ pc[r] = "idle"
                /\ users' = users /\ nextId' = nextId
                /\ user'[r] = NoUser /\ salt'[r] = Undefined]_vars

\* a signup without password, for an email that is registered, was answered
\* 400 with the collection as it was
C27_Witness ==
    \E r \in Requests :
        /\ Signup(r) /\ body[r].password \in {Undefined, ""}
        /\ res[r].status = 400
        /\ seen[r] # {} /\ seen[r] \subseteq users

\* C28: every signup that has begun comes to an end with one response, of
\* status 400, 201 or 500; a response is sent at most once per request and,
\* once sent, is never sent again or changed.
C28_ExactlyOneResponse ==
    /\ \A r \in Requests :
          Signup(r) ~> (/\ Done(r) /\ res[r].sent = 1
                        /\ res[r].status \in {400, 201, 500})
    /\ [](\A r \in Requests :
            /\ res[r].sent \in {0, 1}
            /\ res[r].sent = 0 <=> res[r].status = 0
            /\ Signup(r) =>
                  (Done(r) <=> res[r].sent = 1)
                  /\ res[r].status \in {0, 400, 201, 500})
    /\ [][\A r \in Requests : res[r].sent = 1 => res'[r] = res[r]]_vars

\* every request was a signup and has its one response; one of them failed
\* after its insert
C28_Witness ==
    /\ \A r \in Requests : Signup(r) /\ Done(r) /\ res[r].sent = 1
    /\ \E r \in Requests : err[r] = "secretOrPrivateKey"

\* the passwords the requests submitted, and the hashes made of them
SubmittedPasswords == {body[q].password : q \in Requests} \cap Passwords
PasswordHashes ==
    {d.password : d \in users}
        \cup {user[q].password :
                 q \in {q \in Requests : salt[q] # Undefined /\ pc[q] # "hash"}}

\* C29: no response of a signup has a submitted password or a password hash
\* in its body: a text body is one of the two fixed messages, a 201 body has
\* the fields email, id and profileSetup and no other, with the values of
\* the Identity; the token has email and userId beside the times and the
\* signature jwt.sign adds, and its signature is made of those alone.
C29_NoPasswordInResponse ==
    \A r \in Requests :
        Signup(r) =>
            /\ res[r].send \subseteq {"Please enter all fields",
                                      "Internal Server Error"}
            /\ res[r].send \cap (SubmittedPasswords \cup PasswordHashes) = {}
            /\ \A j \in res[r].json :
                  /\ DOMAIN j = {"email", "id", "profileSetup"}
                  /\ j.email = user[r].email /\ j.id = user[r].id
                  /\ j.profileSetup = user[r].profileSetup
                  /\ j.email \notin SubmittedPasswords \cup PasswordHashes
                  /\ j.profileSetup \notin SubmittedPasswords \cup PasswordHashes
            /\ \A tok \in TokensOf(r) :
                  /\ DOMAIN tok = {"email", "userId", "iat", "exp", "sig"}
                  /\ tok.email = user[r].email /\ tok.userId = user[r].id
                  /\ tok.email \notin SubmittedPasswords \cup PasswordHashes
                  /\ tok.sig = <<at[r].key, tok.email, tok.userId, tok.iat,
                                 tok.exp>>

\* a signup was answered 201 for an Identity stored with the hash of the
\* password it submitted
C29_Witness ==
    \E r \in Requests : \E d \in users :
        /\ res[r].status = 201 /\ res[r].json # {} /\ TokensOf(r) # {}
        /\ d.id = user[r].id /\ d.password \in PasswordHashes
        /\ body[r].password \in SubmittedPasswords

====
